---- MODULE Spec2Model ----
(***************************************************************************)
(* A model of the easyBuy backend (src/index.js): the refresh-token        *)
(* lifecycle (/register, /login, /refresh, /logout), the cart handlers     *)
(* (POST/DELETE /cart, PUT /cart/:productId), the order handlers            *)
(* (POST /order, PUT/DELETE /order/:orderId) and the review handlers        *)
(* (POST/DELETE /order/:orderId/review, GET .../review/image/:index) over  *)
(* the persisted user documents.                                           *)
(*                                                                         *)
(* Every handler is an async function: it reads the user document          *)
(* (await User.findOne / User.findById), then its continuation mutates     *)
(* the in-memory document and writes it back (await user.save()), and      *)
(* responds.  A handler is therefore two steps, <Handler>Find and          *)
(* <Handler>Save, and any other request may run between them.  Validation  *)
(* that precedes the read is part of the Find step; the response follows   *)
(* the write from local values only and is recorded in the Save step.      *)
(* user.save() persists the document the request holds (the repository's   *)
(* whole-aggregate save).                                                  *)
(***************************************************************************)
EXTENDS Integers, Sequences, FiniteSets, TLC

VARIABLES
  db,      \* the users collection: _id -> user document
  clock,   \* Math.floor(Date.now() / 1000), the iat jwt.sign stamps
  secret,  \* process.env.REFRESH_TOKEN_SECRET
  req,     \* the requests in flight, one per slot
  oid      \* the ObjectIds minted for orders so far: an _id is never reused

vars == <<db, clock, secret, req, oid>>

-----------------------------------------------------------------------------
(* Bounds *)

\* the clock runs from 0 to MaxClock seconds
MaxClock == 1
\* a login is taken only while the users hold fewer refresh tokens than this
\* in all
MaxSessions == 2
\* products of one POST /cart batch
MaxBatch == 2
\* a cart add is taken only while every resulting |quantity| stays within this
MaxQty == 2

\* request slots: concurrent requests of the token specification
Slots == {1, 2}
\* the specifications that run one request at a time use this slot
OneSlot == {1}

Secrets == {"k1", "k2"}
Emails == {"a@x", "b@x", "nobody@x"}
Passwords == {"pw1", "pw2"}
\* quantities a PUT /cart/:productId may carry
Quantities == {-1, 0, 1, 2}
\* product identifiers a request may carry; "X" is not in the catalog
ProductIds == {"A", "B", "X"}

-----------------------------------------------------------------------------
(* Values *)

NoToken == [id |-> 0, iat |-> 0, key |-> ""]
NoAccess == [id |-> 0, iat |-> 0, exp |-> 0]
NoUser == [_id |-> 0, email |-> "", password |-> <<>>, refreshTokens |-> <<>>,
           cart |-> [products |-> <<>>], orders |-> <<>>]
\* coupon: null, and a review that is not there
NoCoupon == [code |-> "", discount |-> 0]
NoReview == [comment |-> "", rating |-> 0, imageFiles |-> <<>>]
\* a shippingFee the body does not carry
NoFee == [type |-> "undefined", value |-> 0]

\* express.json() body / headers / params of a request, absent fields empty
NoBody == [email |-> "", password |-> "", token |-> NoToken, id |-> 0,
           products |-> <<>>, productIds |-> {}, productId |-> "", quantity |-> 0,
           orderId |-> 0, couponId |-> "", shippingId |-> "", shippingMethod |-> "",
           shippingFee |-> NoFee, coupon |-> NoCoupon,
           comment |-> "", rating |-> 0, files |-> <<>>, index |-> 0]
NoRes == [status |-> 0, message |-> "", accessToken |-> NoAccess,
          refreshToken |-> NoToken, cart |-> <<>>, count |-> 0, productId |-> "",
          orderId |-> 0, image |-> ""]
Idle == [op |-> "none", pc |-> "idle", body |-> NoBody, user |-> NoUser, res |-> NoRes]

\* the 15 minutes of the access token, in seconds
AccessTtl == 900

\* the catalog loaded at startup
fakeProductDatabase ==
  ("A" :> [name |-> "a", imageUrl |-> "a.png", price |-> 100]) @@
  ("B" :> [name |-> "b", imageUrl |-> "b.png", price |-> 30])

bcryptHash(password) == <<"bcrypt", password>>
bcryptCompare(password, hashed) == hashed = bcryptHash(password)

\* jwt.sign({ id }, ACCESS_TOKEN_SECRET, { expiresIn: '15m' })
generateAccessToken(id) == [id |-> id, iat |-> clock, exp |-> clock + AccessTtl]
\* jwt.sign({ id }, REFRESH_TOKEN_SECRET): the payload is the id and the
\* second of issue, signed with the secret; nothing else tells two tokens apart
generateRefreshToken(id) == [id |-> id, iat |-> clock, key |-> secret]
\* jwt.verify(token, REFRESH_TOKEN_SECRET): no expiry, the signature decides
jwtVerifyRefresh(token) == token.key = secret

-----------------------------------------------------------------------------
(* Arrays *)

Range(s) == {s[i] : i \in 1 .. Len(s)}
Includes(s, x) == x \in Range(s)
\* Array.prototype.filter(t => t !== x)
Without(s, x) == SelectSeq(s, LAMBDA t : t # x)
SetMin(S) == CHOOSE x \in S : \A y \in S : x <= y

-----------------------------------------------------------------------------
(* The User repository *)

\* User.findOne({ email }): the first document with that email
FindByEmail(email) ==
  LET hits == {u \in DOMAIN db : db[u].email = email}
  IN  IF hits = {} THEN NoUser ELSE db[SetMin(hits)]

\* a lookup that trusts the token's payload: the user the token was signed for,
\* whether or not the stored array holds the token
FindByRefreshToken_ByPayload(token) ==
  IF token.id \in DOMAIN db THEN db[token.id] ELSE NoUser

\* User.findOne({ refreshTokens: token }): the first document whose array holds it
FindByRefreshToken(token) ==
  LET hits == {u \in DOMAIN db : Includes(db[u].refreshTokens, token)}
  IN  IF hits = {} THEN NoUser ELSE db[SetMin(hits)]

\* User.findById(id)
FindById(id) == IF id \in DOMAIN db THEN db[id] ELSE NoUser

\* user.save(): the document replaces the stored one.  This is what the save of
\* a request leaves when no other request wrote between its read and its save;
\* what Mongoose stores, or refuses to store, when two saves of one document
\* overlap is not decided by the handlers
Saved(user) == [db EXCEPT ![user._id] = user]

-----------------------------------------------------------------------------
(* Requests *)

Free(r) == req[r].pc \in {"idle", "done"}

Respond(r, op, body, res) ==
  req' = [req EXCEPT ![r] = [op |-> op, pc |-> "done", body |-> body,
                             user |-> NoUser, res |-> res]]

Await(r, op, body, user) ==
  req' = [req EXCEPT ![r] = [op |-> op, pc |-> "loaded", body |-> body,
                             user |-> user, res |-> NoRes]]

Status(code, message) == [NoRes EXCEPT !.status = code, !.message = message]

-----------------------------------------------------------------------------
(* POST /login *)

RECURSIVE SumOver(_, _)
SumOver(f, S) == IF S = {} THEN 0
                 ELSE LET x == CHOOSE y \in S : TRUE IN f[x] + SumOver(f, S \ {x})
\* the refresh tokens stored in all
Sessions == SumOver([u \in DOMAIN db |-> Len(db[u].refreshTokens)], DOMAIN db)

LoginFind(r) ==
  /\ Free(r)
  /\ \E email \in Emails, password \in Passwords :
       LET body == [NoBody EXCEPT !.email = email, !.password = password]
           user == FindByEmail(email)
       IN  /\ Sessions < MaxSessions
           /\ IF user = NoUser \/ ~bcryptCompare(password, user.password)
              THEN Respond(r, "login", body, Status(403, "Invalid credentials"))
              ELSE Await(r, "login", body, user)
  /\ UNCHANGED <<db, clock, secret, oid>>

LoginSave(r) ==
  /\ req[r].op = "login" /\ req[r].pc = "loaded"
  /\ LET user == req[r].user
         accessToken == generateAccessToken(user._id)
         refreshToken == generateRefreshToken(user._id)
         pushed == [user EXCEPT !.refreshTokens = Append(@, refreshToken)]
     IN  /\ db' = Saved(pushed)
         /\ Respond(r, "login", req[r].body,
                    [NoRes EXCEPT !.status = 200, !.accessToken = accessToken,
                                  !.refreshToken = refreshToken])
  /\ UNCHANGED <<clock, secret, oid>>

-----------------------------------------------------------------------------
(* POST /refresh *)

\* every refresh token a client can present: the ones signed so far or under
\* another secret, for either user, and no token at all
Presentable ==
  {NoToken} \cup [id : DOMAIN db, iat : 0 .. clock, key : Secrets]

RefreshFind(r) ==
  /\ Free(r)
  /\ \E token \in Presentable :
       LET body == [NoBody EXCEPT !.token = token]
           user == FindByRefreshToken(token)
       IN  IF token = NoToken
           THEN Respond(r, "refresh", body, Status(401, "Unauthorized"))
           ELSE IF user = NoUser
           THEN Respond(r, "refresh", body, Status(403, "Forbidden"))
           ELSE Await(r, "refresh", body, user)
  /\ UNCHANGED <<db, clock, secret, oid>>

\* the two array statements of the jwt.verify callback
Rotated(user, token, newRefreshToken) ==
  [user EXCEPT !.refreshTokens = Append(Without(@, token), newRefreshToken)]

RefreshSave(r) ==
  /\ req[r].op = "refresh" /\ req[r].pc = "loaded"
  /\ LET user == req[r].user
         token == req[r].body.token
         \* decoded.id
         accessToken == generateAccessToken(token.id)
         newRefreshToken == generateRefreshToken(token.id)
     IN  IF ~jwtVerifyRefresh(token)
         THEN /\ Respond(r, "refresh", req[r].body, Status(403, "Forbidden"))
              /\ UNCHANGED db
         ELSE /\ db' = Saved(Rotated(user, token, newRefreshToken))
              /\ Respond(r, "refresh", req[r].body,
                         [NoRes EXCEPT !.status = 200, !.accessToken = accessToken,
                                       !.refreshToken = newRefreshToken])
  /\ UNCHANGED <<clock, secret, oid>>

-----------------------------------------------------------------------------
(* POST /logout *)

LogoutFind(r) ==
  /\ Free(r)
  /\ \E token \in Presentable :
       LET body == [NoBody EXCEPT !.token = token]
           user == FindByRefreshToken(token)
       IN  IF token = NoToken
           THEN Respond(r, "logout", body, Status(400, "Bad Request"))
           ELSE IF user = NoUser
           THEN Respond(r, "logout", body, Status(403, "Forbidden"))
           ELSE Await(r, "logout", body, user)
  /\ UNCHANGED <<db, clock, secret, oid>>

\* a logout that saves the document as it was read
Revoked_Unfiltered(user, token) == user

\* the filter statement of /logout
Revoked(user, token) == [user EXCEPT !.refreshTokens = Without(@, token)]

LogoutSave(r) ==
  /\ req[r].op = "logout" /\ req[r].pc = "loaded"
  /\ db' = Saved(Revoked(req[r].user, req[r].body.token))
  /\ Respond(r, "logout", req[r].body, Status(200, "Logged out successfully"))
  /\ UNCHANGED <<clock, secret, oid>>

-----------------------------------------------------------------------------
(* The environment *)

\* a second passes
Tick ==
  /\ clock < MaxClock
  /\ clock' = clock + 1
  /\ UNCHANGED <<db, secret, req, oid>>

\* the server is restarted with another REFRESH_TOKEN_SECRET; the requests in
\* flight die with the process, the database stays
Restart ==
  /\ \E k \in Secrets \ {secret} : secret' = k
  /\ req' = [r \in Slots |-> Idle]
  /\ UNCHANGED <<db, clock, oid>>

-----------------------------------------------------------------------------
(* The token specification: two registered users, no session yet *)

Registered(id, email, password) ==
  [NoUser EXCEPT !._id = id, !.email = email, !.password = bcryptHash(password)]

InitToken ==
  /\ db = (1 :> Registered(1, "a@x", "pw1")) @@ (2 :> Registered(2, "b@x", "pw2"))
  /\ clock = 0
  /\ secret = "k1"
  /\ req = [r \in Slots |-> Idle]
  /\ oid = 0

TokenRequest(r) ==
  \/ LoginFind(r)
  \/ LoginSave(r)
  \/ RefreshFind(r)
  \/ RefreshSave(r)
  \/ LogoutFind(r)
  \/ LogoutSave(r)

NextToken ==
  \/ \E r \in OneSlot : TokenRequest(r)
  \/ Tick
  \/ Restart

SpecToken == InitToken /\ [][NextToken]_vars

\* the same handlers with two requests in flight, on one registered user
InitTokenRace ==
  /\ db = (1 :> Registered(1, "a@x", "pw1"))
  /\ clock = 0
  /\ secret = "k1"
  /\ req = [r \in Slots |-> Idle]
  /\ oid = 0

NextTokenRace ==
  \/ \E r \in Slots : TokenRequest(r)
  \/ Tick

SpecTokenRace == InitTokenRace /\ [][NextTokenRace]_vars

\* the same user and slots, the requests served one after the other: a request
\* arrives when no other is between its read and its save, and the slots keep
\* the last two answers
Quiet == \A r \in Slots : req[r].pc # "loaded"

NextTokenTurns ==
  \/ \E r \in Slots : TokenRequest(r) /\ (Quiet \/ req[r].pc = "loaded")
  \/ Tick

SpecTokenTurns == InitTokenRace /\ [][NextTokenTurns]_vars

-----------------------------------------------------------------------------
(* The cart handlers.  authenticateToken has verified the access token and   *)
(* set req.user.id, here body.id: an access token is only ever signed for a  *)
(* stored user, and no handler deletes a user.                               *)

\* Array.prototype.find on the cart: the position of the first item with the
\* product identifier, 0 when there is none
FindItem(products, productId) ==
  LET hits == {i \in 1 .. Len(products) : products[i].productId = productId}
  IN  IF hits = {} THEN 0 ELSE SetMin(hits)

\* a loop body that pushes without looking for the item
MergeOne_AlwaysPush(products, p) ==
  LET info == fakeProductDatabase[p.productId]
  IN  Append(products, [productId |-> p.productId, name |-> info.name,
                        imageUrl |-> info.imageUrl, price |-> info.price,
                        quantity |-> p.quantity])

\* the body of the for loop of POST /cart for one product of the batch, the
\* catalog holding it: the quantity is added to the item found, or an item
\* built from the catalog record is pushed
MergeOne(products, p) ==
  LET info == fakeProductDatabase[p.productId]
      existing == FindItem(products, p.productId)
  IN  IF existing # 0
      THEN [products EXCEPT ![existing].quantity = @ + p.quantity]
      ELSE Append(products, [productId |-> p.productId, name |-> info.name,
                             imageUrl |-> info.imageUrl, price |-> info.price,
                             quantity |-> p.quantity])

\* the for loop of POST /cart from position i on: it returns at the first
\* product the catalog does not hold
RECURSIVE MergeAll(_, _, _)
MergeAll(products, batch, i) ==
  IF i > Len(batch) THEN [ok |-> TRUE, products |-> products, productId |-> ""]
  ELSE IF batch[i].productId \notin DOMAIN fakeProductDatabase
  THEN [ok |-> FALSE, products |-> products, productId |-> batch[i].productId]
  ELSE MergeAll(MergeOne(products, batch[i]), batch, i + 1)

\* the batches a POST /cart may carry, the empty one included
RECURSIVE SeqsUpTo(_, _)
SeqsUpTo(S, n) ==
  IF n = 0 THEN {<<>>}
  ELSE LET shorter == SeqsUpTo(S, n - 1)
       IN  shorter \cup {Append(b, x) : b \in shorter, x \in S}
\* the products a batch is made of: "A" with a negative, a zero and two positive
\* quantities, "B", and "X", which the catalog does not hold
BatchProducts ==
  [productId : {"A"}, quantity : {-1, 0, 1, 2}] \cup
  [productId : {"B", "X"}, quantity : {1}]
Batches == SeqsUpTo(BatchProducts, MaxBatch)

Abs(n) == IF n < 0 THEN -n ELSE n
WithinQty(products) == \A i \in 1 .. Len(products) : Abs(products[i].quantity) <= MaxQty

CartAddFind(r) ==
  /\ Free(r)
  /\ \E id \in DOMAIN db, products \in Batches :
       LET body == [NoBody EXCEPT !.id = id, !.products = products]
           user == FindById(id)
       IN  /\ WithinQty(MergeAll(user.cart.products, products, 1).products)
           /\ IF Len(products) = 0
              THEN Respond(r, "cartAdd", body, Status(400, "Products required"))
              ELSE IF user = NoUser
              THEN Respond(r, "cartAdd", body, Status(404, "User not found"))
              ELSE Await(r, "cartAdd", body, user)
  /\ UNCHANGED <<db, clock, secret, oid>>

\* a handler that saves what the loop had merged when it met the unknown product
CartAddSave_SavesPartial(r) ==
  /\ req[r].op = "cartAdd" /\ req[r].pc = "loaded"
  /\ LET user == req[r].user
         merged == MergeAll(user.cart.products, req[r].body.products, 1)
     IN  /\ db' = Saved([user EXCEPT !.cart.products = merged.products])
         /\ IF ~merged.ok
            THEN Respond(r, "cartAdd", req[r].body,
                         [Status(400, "Invalid productId") EXCEPT
                            !.productId = merged.productId])
            ELSE Respond(r, "cartAdd", req[r].body,
                         [Status(200, "Add to cart successfully") EXCEPT
                            !.cart = merged.products])
  /\ UNCHANGED <<clock, secret, oid>>

CartAddSave(r) ==
  /\ req[r].op = "cartAdd" /\ req[r].pc = "loaded"
  /\ LET user == req[r].user
         merged == MergeAll(user.cart.products, req[r].body.products, 1)
     IN  IF ~merged.ok
         THEN /\ Respond(r, "cartAdd", req[r].body,
                         [Status(400, "Invalid productId") EXCEPT
                            !.productId = merged.productId])
              /\ UNCHANGED db
         ELSE /\ db' = Saved([user EXCEPT !.cart.products = merged.products])
              /\ Respond(r, "cartAdd", req[r].body,
                         [Status(200, "Add to cart successfully") EXCEPT
                            !.cart = merged.products])
  /\ UNCHANGED <<clock, secret, oid>>

\* a filter without the negation: it keeps the products to delete
FilterOut_KeepsMatched(products, productIds) ==
  SelectSeq(products, LAMBDA p : p.productId \in productIds)

\* cart.products.filter(p => !productIds.includes(p.productId))
FilterOut(products, productIds) ==
  SelectSeq(products, LAMBDA p : p.productId \notin productIds)

CartDeleteFind(r) ==
  /\ Free(r)
  /\ \E id \in DOMAIN db, productIds \in SUBSET ProductIds :
       LET body == [NoBody EXCEPT !.id = id, !.productIds = productIds]
           user == FindById(id)
       IN  IF productIds = {}
           THEN Respond(r, "cartDelete", body,
                        Status(400, "productIds must be a non-empty array"))
           ELSE IF user = NoUser
           THEN Respond(r, "cartDelete", body, Status(404, "User not found"))
           ELSE Await(r, "cartDelete", body, user)
  /\ UNCHANGED <<db, clock, secret, oid>>

CartDeleteSave(r) ==
  /\ req[r].op = "cartDelete" /\ req[r].pc = "loaded"
  /\ LET user == req[r].user
         originalCount == Len(user.cart.products)
         kept == FilterOut(user.cart.products, req[r].body.productIds)
         deletedCount == originalCount - Len(kept)
     IN  IF deletedCount = 0
         THEN /\ Respond(r, "cartDelete", req[r].body,
                         Status(404, "No matching products found in cart"))
              /\ UNCHANGED db
         ELSE /\ db' = Saved([user EXCEPT !.cart.products = kept])
              /\ Respond(r, "cartDelete", req[r].body,
                         [Status(200, "Deleted product(s) from cart") EXCEPT
                            !.count = deletedCount])
  /\ UNCHANGED <<clock, secret, oid>>

\* an assignment that adds, as POST /cart does
SetItemQuantity_Adds(products, i, quantity) ==
  [products EXCEPT ![i].quantity = @ + quantity]

\* item.quantity = quantity, item the cart's item at position i
SetItemQuantity(products, i, quantity) == [products EXCEPT ![i].quantity = quantity]

CartPutFind(r) ==
  /\ Free(r)
  /\ \E id \in DOMAIN db, productId \in ProductIds, quantity \in Quantities :
       LET body == [NoBody EXCEPT !.id = id, !.productId = productId,
                                  !.quantity = quantity]
           user == FindById(id)
       IN  IF quantity < 1
           THEN Respond(r, "cartPut", body, Status(400, "Invalid quantity"))
           ELSE IF user = NoUser
           THEN Respond(r, "cartPut", body, Status(404, "User not found"))
           ELSE Await(r, "cartPut", body, user)
  /\ UNCHANGED <<db, clock, secret, oid>>

CartPutSave(r) ==
  /\ req[r].op = "cartPut" /\ req[r].pc = "loaded"
  /\ LET user == req[r].user
         item == FindItem(user.cart.products, req[r].body.productId)
     IN  IF item = 0
         THEN /\ Respond(r, "cartPut", req[r].body, Status(404, "Product not in cart"))
              /\ UNCHANGED db
         ELSE /\ db' = Saved([user EXCEPT !.cart.products =
                                SetItemQuantity(@, item, req[r].body.quantity)])
              /\ Respond(r, "cartPut", req[r].body,
                         Status(200, "Cart updated successfully"))
  /\ UNCHANGED <<clock, secret, oid>>

-----------------------------------------------------------------------------
(* The cart specification: one registered user with an empty cart, one      *)
(* request at a time                                                         *)

InitCart ==
  /\ db = (1 :> Registered(1, "a@x", "pw1"))
  /\ clock = 0
  /\ secret = "k1"
  /\ req = [r \in Slots |-> Idle]
  /\ oid = 0

CartRequest(r) ==
  \/ CartAddFind(r)
  \/ CartAddSave(r)
  \/ CartDeleteFind(r)
  \/ CartDeleteSave(r)
  \/ CartPutFind(r)
  \/ CartPutSave(r)

NextCart == \E r \in OneSlot : CartRequest(r)

SpecCart == InitCart /\ [][NextCart]_vars

-----------------------------------------------------------------------------
(* The order handlers *)

\* the coupon table
fakeCouponDatabase ==
  ("123" :> [code |-> "discount20", discount |-> 20]) @@
  ("456" :> [code |-> "discount100", discount |-> 100]) @@
  ("789" :> [code |-> "discount200", discount |-> 200])

\* the shipping table (the method labels transliterated)
fakeShippingFeeDatabase ==
  ("123" :> [shippingMethod |-> "store", ShippingFee |-> 60]) @@
  ("456" :> [shippingMethod |-> "home", ShippingFee |-> 100]) @@
  ("789" :> [shippingMethod |-> "pickup", ShippingFee |-> 0])

\* the orders that may be created in all
MaxOrderIds == 2

\* the product lists an order request may carry
OrderBatches ==
  LET a == [productId |-> "A", quantity |-> 1]
      b == [productId |-> "B", quantity |-> 2]
      x == [productId |-> "X", quantity |-> 1]
  IN  {<<>>, <<a, b>>, <<a, x>>}
CouponIds == {"123", "000"}
ShippingIds == {"123", "000"}
\* the shippingFee of a PUT /order/:orderId body: a JSON number or a numeric
\* string
ShippingFees == {[type |-> "number", value |-> 60], [type |-> "string", value |-> 60]}
\* the coupon of a PUT /order/:orderId body: none, or the caller's object
Coupons == {NoCoupon, [code |-> "discount20", discount |-> 20]}
\* order identifiers a request may name: the ones minted, and one never minted
OrderIds == 1 .. (oid + 1)

\* the schema's Number cast of a body value: a number or a numeric string is
\* stored as the number, an absent value is not stored (0 here)
CastNumber(v) == IF v.type = "undefined" THEN 0 ELSE v.value

\* the for loop of POST /order and PUT /order/:orderId from position i on: it
\* returns at the first product the catalog does not hold
RECURSIVE ResolveAll(_, _, _, _)
ResolveAll(batch, i, fullProducts, totalAmount) ==
  IF i > Len(batch)
  THEN [ok |-> TRUE, products |-> fullProducts, totalAmount |-> totalAmount,
        productId |-> ""]
  ELSE IF batch[i].productId \notin DOMAIN fakeProductDatabase
  THEN [ok |-> FALSE, products |-> fullProducts, totalAmount |-> totalAmount,
        productId |-> batch[i].productId]
  ELSE LET info == fakeProductDatabase[batch[i].productId]
       IN  ResolveAll(batch, i + 1,
                      Append(fullProducts,
                             [productId |-> batch[i].productId, name |-> info.name,
                              imageUrl |-> info.imageUrl, price |-> info.price,
                              quantity |-> batch[i].quantity]),
                      totalAmount + info.price * batch[i].quantity)

\* user.orders.id(orderId): the position of the order, 0 when there is none
FindOrder(orders, orderId) ==
  LET hits == {i \in 1 .. Len(orders) : orders[i]._id = orderId}
  IN  IF hits = {} THEN 0 ELSE SetMin(hits)

OrderCreateFind(r) ==
  /\ Free(r)
  /\ oid < MaxOrderIds
  /\ \E id \in DOMAIN db, products \in OrderBatches,
        couponId \in CouponIds, shippingId \in ShippingIds :
       LET body == [NoBody EXCEPT !.id = id, !.products = products,
                                  !.couponId = couponId, !.shippingId = shippingId]
           user == FindById(id)
       IN  IF shippingId \notin DOMAIN fakeShippingFeeDatabase
           THEN Respond(r, "orderCreate", body, Status(400, "Invalid shippingId"))
           ELSE IF Len(products) = 0
           THEN Respond(r, "orderCreate", body, Status(400, "Products required"))
           ELSE IF user = NoUser
           THEN Respond(r, "orderCreate", body, Status(404, "User not found"))
           ELSE Await(r, "orderCreate", body, user)
  /\ UNCHANGED <<db, clock, secret, oid>>

\* a total that takes a discount off whatever the coupon is
CreateTotal_FlatDiscount(itemsTotal, shippingFee, coupon) ==
  (itemsTotal + shippingFee) - 20

\* the total of POST /order: the items, plus the fee, minus the discount of a
\* coupon that has one
CreateTotal(itemsTotal, shippingFee, coupon) ==
  (itemsTotal + shippingFee) - (IF coupon.discount # 0 THEN coupon.discount ELSE 0)

OrderCreateSave(r) ==
  /\ req[r].op = "orderCreate" /\ req[r].pc = "loaded"
  /\ LET user == req[r].user
         body == req[r].body
         coupon == IF body.couponId \in DOMAIN fakeCouponDatabase
                   THEN fakeCouponDatabase[body.couponId] ELSE NoCoupon
         shippingData == fakeShippingFeeDatabase[body.shippingId]
         resolved == ResolveAll(body.products, 1, <<>>, 0)
         order == [_id |-> oid + 1,
                   products |-> resolved.products,
                   shippingMethod |-> shippingData.shippingMethod,
                   createdAt |-> clock,
                   totalAmount |-> CreateTotal(resolved.totalAmount,
                                               shippingData.ShippingFee, coupon),
                   shippingFee |-> shippingData.ShippingFee,
                   coupon |-> coupon,
                   review |-> NoReview]
     IN  IF ~resolved.ok
         THEN /\ Respond(r, "orderCreate", body,
                         [Status(400, "Invalid productId") EXCEPT
                            !.productId = resolved.productId])
              /\ UNCHANGED <<db, oid>>
         ELSE /\ db' = Saved([user EXCEPT !.orders = Append(@, order)])
              /\ oid' = oid + 1
              /\ Respond(r, "orderCreate", body,
                         [Status(200, "Order created") EXCEPT !.orderId = order._id])
  /\ UNCHANGED <<clock, secret>>

OrderUpdateFind(r) ==
  /\ Free(r)
  /\ \E id \in DOMAIN db, orderId \in OrderIds, products \in OrderBatches,
        shippingFee \in ShippingFees, coupon \in Coupons :
       LET body == [NoBody EXCEPT !.id = id, !.orderId = orderId, !.products = products,
                                  !.shippingMethod = "home",
                                  !.shippingFee = shippingFee, !.coupon = coupon]
           user == FindById(id)
       IN  IF user = NoUser
           THEN Respond(r, "orderUpdate", body, Status(404, "User not found"))
           ELSE Await(r, "orderUpdate", body, user)
  /\ UNCHANGED <<db, clock, secret, oid>>

\* the total of PUT /order/:orderId: the fee is added when it is a number
UpdateTotal(itemsTotal, shippingFee, coupon) ==
  (itemsTotal + (IF shippingFee.type = "number" THEN shippingFee.value ELSE 0))
    - (IF coupon.discount # 0 THEN coupon.discount ELSE 0)

\* an update that stores the products resolved before the one that failed
OrderUpdateSave_SavesPartial(r) ==
  /\ req[r].op = "orderUpdate" /\ req[r].pc = "loaded"
  /\ LET user == req[r].user
         body == req[r].body
         order == FindOrder(user.orders, body.orderId)
         resolved == ResolveAll(body.products, 1, <<>>, 0)
     IN  IF order = 0
         THEN /\ Respond(r, "orderUpdate", body, Status(404, "Order not found"))
              /\ UNCHANGED db
         ELSE /\ db' = Saved([user EXCEPT
                   !.orders[order].products = resolved.products,
                   !.orders[order].shippingMethod = body.shippingMethod,
                   !.orders[order].shippingFee = CastNumber(body.shippingFee),
                   !.orders[order].totalAmount =
                      UpdateTotal(resolved.totalAmount, body.shippingFee, body.coupon),
                   !.orders[order].coupon = body.coupon,
                   !.orders[order].createdAt = clock])
              /\ IF resolved.ok
                 THEN Respond(r, "orderUpdate", body, Status(200, "Order updated"))
                 ELSE Respond(r, "orderUpdate", body,
                              [Status(400, "Invalid productId") EXCEPT
                                 !.productId = resolved.productId])
  /\ UNCHANGED <<clock, secret, oid>>

OrderUpdateSave(r) ==
  /\ req[r].op = "orderUpdate" /\ req[r].pc = "loaded"
  /\ LET user == req[r].user
         body == req[r].body
         order == FindOrder(user.orders, body.orderId)
         resolved == ResolveAll(body.products, 1, <<>>, 0)
     IN  IF order = 0
         THEN /\ Respond(r, "orderUpdate", body, Status(404, "Order not found"))
              /\ UNCHANGED db
         ELSE IF ~resolved.ok
         THEN /\ Respond(r, "orderUpdate", body,
                         [Status(400, "Invalid productId") EXCEPT
                            !.productId = resolved.productId])
              /\ UNCHANGED db
         ELSE /\ db' = Saved([user EXCEPT
                   !.orders[order].products = resolved.products,
                   !.orders[order].shippingMethod = body.shippingMethod,
                   !.orders[order].shippingFee = CastNumber(body.shippingFee),
                   !.orders[order].totalAmount =
                      UpdateTotal(resolved.totalAmount, body.shippingFee, body.coupon),
                   !.orders[order].coupon = body.coupon,
                   !.orders[order].createdAt = clock])
              /\ Respond(r, "orderUpdate", body, Status(200, "Order updated"))
  /\ UNCHANGED <<clock, secret, oid>>

OrderDeleteFind(r) ==
  /\ Free(r)
  /\ \E id \in DOMAIN db, orderId \in OrderIds :
       LET body == [NoBody EXCEPT !.id = id, !.orderId = orderId]
           user == FindById(id)
       IN  IF user = NoUser
           THEN Respond(r, "orderDelete", body, Status(404, "User not found"))
           ELSE Await(r, "orderDelete", body, user)
  /\ UNCHANGED <<db, clock, secret, oid>>

\* a deletion that also empties the cart
OrderDeleteSave_ClearsCart(r) ==
  /\ req[r].op = "orderDelete" /\ req[r].pc = "loaded"
  /\ LET user == req[r].user
         lenBefore == Len(user.orders)
         kept == SelectSeq(user.orders, LAMBDA o : o._id # req[r].body.orderId)
     IN  IF Len(kept) = lenBefore
         THEN /\ Respond(r, "orderDelete", req[r].body, Status(404, "Order not found"))
              /\ UNCHANGED db
         ELSE /\ db' = Saved([user EXCEPT !.orders = kept, !.cart.products = <<>>])
              /\ Respond(r, "orderDelete", req[r].body, Status(200, "Order deleted"))
  /\ UNCHANGED <<clock, secret, oid>>

OrderDeleteSave(r) ==
  /\ req[r].op = "orderDelete" /\ req[r].pc = "loaded"
  /\ LET user == req[r].user
         lenBefore == Len(user.orders)
         kept == SelectSeq(user.orders, LAMBDA o : o._id # req[r].body.orderId)
     IN  IF Len(kept) = lenBefore
         THEN /\ Respond(r, "orderDelete", req[r].body, Status(404, "Order not found"))
              /\ UNCHANGED db
         ELSE /\ db' = Saved([user EXCEPT !.orders = kept])
              /\ Respond(r, "orderDelete", req[r].body, Status(200, "Order deleted"))
  /\ UNCHANGED <<clock, secret, oid>>

-----------------------------------------------------------------------------
(* The order specification: one registered user, one request at a time; the
   user has no order yet, or has one that was reviewed *)

\* the order POST /order makes of products A x 1 and B x 2, coupon "123" and
\* shipping "123"
FirstOrder ==
  [_id |-> 1,
   products |-> ResolveAll(<<[productId |-> "A", quantity |-> 1],
                             [productId |-> "B", quantity |-> 2]>>, 1, <<>>, 0).products,
   shippingMethod |-> "store",
   createdAt |-> 0,
   totalAmount |-> 200,
   shippingFee |-> 60,
   coupon |-> fakeCouponDatabase["123"],
   review |-> NoReview]
\* the review POST /order/:orderId/review makes of comment "ok", rating "5"
\* and one image
FirstReview == [comment |-> "ok", rating |-> 5, imageFiles |-> <<"img1">>]

InitOrder ==
  /\ \/ /\ db = (1 :> Registered(1, "a@x", "pw1"))
        /\ oid = 0
     \/ /\ db = (1 :> [Registered(1, "a@x", "pw1") EXCEPT
                         !.orders = <<[FirstOrder EXCEPT !.review = FirstReview]>>])
        /\ oid = 1
  /\ clock = 0
  /\ secret = "k1"
  /\ req = [r \in Slots |-> Idle]

OrderRequest(r) ==
  \/ OrderCreateFind(r)
  \/ OrderCreateSave(r)
  \/ OrderUpdateFind(r)
  \/ OrderUpdateSave(r)
  \/ OrderDeleteFind(r)
  \/ OrderDeleteSave(r)

NextOrder == \E r \in OneSlot : OrderRequest(r)

SpecOrder == InitOrder /\ [][NextOrder]_vars

-----------------------------------------------------------------------------
(* The review handlers *)

\* req.body.rating is text (a multipart field): Number(rating), in tenths, of
\* the texts that are numeric
RatingTenths ==
  ("" :> 0) @@ ("0" :> 0) @@ ("1" :> 10) @@ ("2.5" :> 25) @@ ("5" :> 50) @@ ("6" :> 60)
RatingTexts == DOMAIN RatingTenths \cup {"abc"}
Comments == {"", "ok"}
FileLists == {<<>>, <<"img1">>, <<"img1", "img2">>}
Indexes == {-1, 0, 1, 2}

isNaN(rating) == rating \notin DOMAIN RatingTenths
\* parseInt reads the digits before the point
parseInt(rating) == RatingTenths[rating] \div 10

\* the test of line 393
RatingRefused(rating) ==
  \/ rating = ""
  \/ isNaN(rating)
  \/ RatingTenths[rating] < 10
  \/ RatingTenths[rating] > 50

\* a test that sees the comment only
HasReview_CommentOnly(review) ==
  /\ review # NoReview
  /\ review.comment # ""

\* the test of lines 405-410
HasReview(review) ==
  /\ review # NoReview
  /\ \/ review.comment # ""
     \/ review.rating # 0
     \/ Len(review.imageFiles) > 0

ReviewAttachFind(r) ==
  /\ Free(r)
  /\ \E id \in DOMAIN db, orderId \in OrderIds, comment \in Comments,
        rating \in RatingTexts, files \in FileLists :
       LET body == [NoBody EXCEPT !.id = id, !.orderId = orderId, !.comment = comment,
                                  !.rating = rating, !.files = files]
           user == FindById(id)
       IN  IF RatingRefused(rating)
           THEN Respond(r, "reviewAttach", body,
                        Status(400, "Rating must be a number from 1 to 5"))
           ELSE IF user = NoUser
           THEN Respond(r, "reviewAttach", body, Status(404, "User not found"))
           ELSE Await(r, "reviewAttach", body, user)
  /\ UNCHANGED <<db, clock, secret, oid>>

ReviewAttachSave(r) ==
  /\ req[r].op = "reviewAttach" /\ req[r].pc = "loaded"
  /\ LET user == req[r].user
         body == req[r].body
         order == FindOrder(user.orders, body.orderId)
     IN  IF order = 0
         THEN /\ Respond(r, "reviewAttach", body, Status(404, "Order not found"))
              /\ UNCHANGED db
         ELSE IF HasReview(user.orders[order].review)
         THEN /\ Respond(r, "reviewAttach", body, Status(400, "Review already exists"))
              /\ UNCHANGED db
         ELSE /\ db' = Saved([user EXCEPT !.orders[order].review =
                                [comment |-> body.comment,
                                 rating |-> parseInt(body.rating),
                                 imageFiles |-> body.files]])
              /\ Respond(r, "reviewAttach", body, Status(200, "Review added successfully"))
  /\ UNCHANGED <<clock, secret, oid>>

ReviewDetachFind(r) ==
  /\ Free(r)
  /\ \E id \in DOMAIN db, orderId \in OrderIds :
       LET body == [NoBody EXCEPT !.id = id, !.orderId = orderId]
           user == FindById(id)
       IN  IF user = NoUser
           THEN Respond(r, "reviewDetach", body, Status(404, "User not found"))
           ELSE Await(r, "reviewDetach", body, user)
  /\ UNCHANGED <<db, clock, secret, oid>>

\* order.review is a nested path of the schema: for an order that has no
\* review the test !order.review may see nothing, or an empty object, so the
\* handler may answer 404 or store the order as it is and answer 200
ReviewDetachSave(r) ==
  /\ req[r].op = "reviewDetach" /\ req[r].pc = "loaded"
  /\ LET user == req[r].user
         body == req[r].body
         order == FindOrder(user.orders, body.orderId)
     IN  IF order = 0
         THEN /\ Respond(r, "reviewDetach", body, Status(404, "Review not found"))
              /\ UNCHANGED db
         ELSE IF user.orders[order].review = NoReview
         THEN \/ /\ Respond(r, "reviewDetach", body, Status(404, "Review not found"))
                 /\ UNCHANGED db
              \/ /\ db' = Saved(user)
                 /\ Respond(r, "reviewDetach", body, Status(200, "Review deleted"))
         ELSE /\ db' = Saved([user EXCEPT !.orders[order].review = NoReview])
              /\ Respond(r, "reviewDetach", body, Status(200, "Review deleted"))
  /\ UNCHANGED <<clock, secret, oid>>

ImageFind(r) ==
  /\ Free(r)
  /\ \E id \in DOMAIN db, orderId \in OrderIds, index \in Indexes :
       LET body == [NoBody EXCEPT !.id = id, !.orderId = orderId, !.index = index]
           user == FindById(id)
       IN  IF user = NoUser
           THEN Respond(r, "image", body, Status(404, "User not found"))
           ELSE Await(r, "image", body, user)
  /\ UNCHANGED <<db, clock, secret, oid>>

\* imageFiles[index]: positions count from 0, and any other index is undefined
ImageAt_FromOne(imageFiles, index) ==
  IF index \in 1 .. Len(imageFiles) THEN imageFiles[index] ELSE ""

ImageAt(imageFiles, index) ==
  IF index + 1 \in 1 .. Len(imageFiles) THEN imageFiles[index + 1] ELSE ""

ImageSend(r) ==
  /\ req[r].op = "image" /\ req[r].pc = "loaded"
  /\ LET user == req[r].user
         body == req[r].body
         order == FindOrder(user.orders, body.orderId)
     IN  IF order = 0
         THEN Respond(r, "image", body, Status(404, "Review not found"))
         ELSE IF user.orders[order].review = NoReview
         THEN \/ Respond(r, "image", body, Status(404, "Review not found"))
              \/ Respond(r, "image", body, Status(404, "Image not found"))
         ELSE LET image == ImageAt(user.orders[order].review.imageFiles, body.index)
              IN  IF image = ""
                  THEN Respond(r, "image", body, Status(404, "Image not found"))
                  ELSE Respond(r, "image", body, [Status(200, "") EXCEPT !.image = image])
  /\ UNCHANGED <<db, clock, secret, oid>>

-----------------------------------------------------------------------------
(* The review specification: one user with one order, one request at a time *)

InitReview ==
  /\ db = (1 :> [Registered(1, "a@x", "pw1") EXCEPT !.orders = <<FirstOrder>>])
  /\ oid = 1
  /\ clock = 0
  /\ secret = "k1"
  /\ req = [r \in Slots |-> Idle]

ReviewRequest(r) ==
  \/ ReviewAttachFind(r)
  \/ ReviewAttachSave(r)
  \/ ReviewDetachFind(r)
  \/ ReviewDetachSave(r)
  \/ ImageFind(r)
  \/ ImageSend(r)

NextReview == \E r \in OneSlot : ReviewRequest(r)

SpecReview == InitReview /\ [][NextReview]_vars

-----------------------------------------------------------------------------
(* POST /register *)

\* the users that may be registered in all
MaxUsers == 3
RegisterEmails == {"", "a@x", "b@x"}
RegisterPasswords == {"", "pw1"}

\* the registrations that have read the database and not yet saved
Registering == {r \in Slots : req[r].op = "register" /\ req[r].pc = "loaded"}

RegisterFind(r) ==
  /\ Free(r)
  /\ Cardinality(DOMAIN db) + Cardinality(Registering) < MaxUsers
  /\ \E email \in RegisterEmails, password \in RegisterPasswords :
       LET body == [NoBody EXCEPT !.email = email, !.password = password]
           existing == FindByEmail(email)
       IN  IF email = "" \/ password = ""
           THEN Respond(r, "register", body, Status(400, "Email and password required"))
           ELSE IF existing # NoUser
           THEN Respond(r, "register", body, Status(400, "Email already registered"))
           ELSE Await(r, "register", body, NoUser)
  /\ UNCHANGED <<db, clock, secret, oid>>

\* new User({ email, password: hashed }).save() inserts a document under a
\* fresh _id
RegisterSave(r) ==
  /\ req[r].op = "register" /\ req[r].pc = "loaded"
  /\ LET id == Cardinality(DOMAIN db) + 1
     IN  db' = db @@ (id :> Registered(id, req[r].body.email, req[r].body.password))
  /\ Respond(r, "register", req[r].body, Status(200, "User registered"))
  /\ UNCHANGED <<clock, secret, oid>>

-----------------------------------------------------------------------------
(* The registration specification: no user yet, two requests in flight *)

InitRegister ==
  /\ db = <<>>
  /\ clock = 0
  /\ secret = "k1"
  /\ req = [r \in Slots |-> Idle]
  /\ oid = 0

NextRegister ==
  \E r \in Slots :
    \/ RegisterFind(r)
    \/ RegisterSave(r)

SpecRegister == InitRegister /\ [][NextRegister]_vars

-----------------------------------------------------------------------------
(* The shop specification: the cart and the order handlers of one user, one
   request at a time, each with a few of its inputs *)

ShopCartBatches ==
  {<<[productId |-> "A", quantity |-> 1]>>, <<[productId |-> "B", quantity |-> 1]>>,
   <<[productId |-> "A", quantity |-> 1], [productId |-> "X", quantity |-> 1]>>}
ShopOrderBatches ==
  {<<[productId |-> "A", quantity |-> 1], [productId |-> "B", quantity |-> 2]>>,
   <<[productId |-> "A", quantity |-> 1], [productId |-> "X", quantity |-> 1]>>}

ShopRequest(r) ==
  \/ CartAddFind(r) /\ req'[r].body.products \in ShopCartBatches
  \/ CartAddSave(r)
  \/ CartDeleteFind(r)
  \/ CartDeleteSave(r)
  \/ CartPutFind(r) /\ req'[r].body.quantity > 0
  \/ CartPutSave(r)
  \/ /\ OrderCreateFind(r)
     /\ req'[r].body.products \in ShopOrderBatches
     /\ req'[r].body.couponId = "123"
  \/ OrderCreateSave(r)
  \/ /\ OrderUpdateFind(r)
     /\ req'[r].body.products \in ShopOrderBatches
     /\ req'[r].body.shippingFee.type = "number"
     /\ req'[r].body.coupon = NoCoupon
  \/ OrderUpdateSave(r)
  \/ OrderDeleteFind(r)
  \/ OrderDeleteSave(r)

NextShop == \E r \in OneSlot : ShopRequest(r)

SpecShop == InitCart /\ [][NextShop]_vars

-----------------------------------------------------------------------------
(* What the token claims speak of *)

\* the users whose stored refresh-token array holds the token
Holders(d, token) == {u \in DOMAIN d : Includes(d[u].refreshTokens, token)}

\* the step in which slot r takes a new request of kind op
Arrives(r, op) == Free(r) /\ req'[r] # req[r] /\ req'[r].op = op
\* the step in which the continuation of slot r's request of kind op runs
Continues(r, op) == req[r].op = op /\ req[r].pc = "loaded" /\ req'[r].pc = "done"
Succeeded(r, op) == req[r].op = op /\ req[r].pc = "done" /\ req[r].res.status = 200

\* C1: after a rotation presenting T succeeds, T is in no user's refresh-token
\* set (so the next rotation presenting T is rejected and T identifies no
\* user), and the refresh token the rotation returned is in the owner's set.
C1_RotationInvalidatesOld ==
  [][\A r \in Slots :
       (Continues(r, "refresh") /\ req'[r].res.status = 200) =>
         /\ Holders(db', req[r].body.token) = {}
         /\ Holders(db', req'[r].res.refreshToken) = {req[r].user._id}]_vars

\* C2: of the /refresh requests that present the same token at most one is
\* answered with a new pair.  Stated for the rotations that issued a token
\* other than the one presented, so that two successes are two redemptions of
\* a token the first of them had already replaced.
C2_AtMostOneRedemption ==
  \A r1, r2 \in Slots :
    (/\ r1 # r2
     /\ Succeeded(r1, "refresh") /\ Succeeded(r2, "refresh")
     /\ req[r1].body.token = req[r2].body.token)
    => \/ req[r1].res.refreshToken = req[r1].body.token
       \/ req[r2].res.refreshToken = req[r2].body.token

\* C3: a successful rotation is one write of the owner's document that takes the
\* old token out and puts the new one in, and when the response is sent the
\* stored set holds the new token and not the old one.
C3_RotationSingleWrite ==
  [][\A r \in Slots :
       (Continues(r, "refresh") /\ req'[r].res.status = 200) =>
         LET owner == req[r].user._id
             old == req[r].body.token
             new == req'[r].res.refreshToken
         IN  /\ db'[owner].refreshTokens =
                  Append(Without(req[r].user.refreshTokens, old), new)
             /\ Includes(db'[owner].refreshTokens, new)
             /\ ~Includes(db'[owner].refreshTokens, old)]_vars

\* C4: a /refresh or /logout presenting a token that no user's stored set holds
\* is answered 403 and writes nothing, whether or not the token is correctly
\* signed; a /refresh whose token was found but fails jwt.verify is answered
\* 403 and writes nothing; and a /refresh or /logout answered 200 presented a
\* token that was in the set of the document it read.
C4_MembershipDecides ==
  [][\A r \in Slots :
       /\ \A op \in {"refresh", "logout"} :
            (/\ Arrives(r, op)
             /\ req'[r].body.token # NoToken
             /\ Holders(db, req'[r].body.token) = {})
            => /\ req'[r].pc = "done"
               /\ req'[r].res.status = 403
               /\ db' = db
       /\ (Continues(r, "refresh") /\ ~jwtVerifyRefresh(req[r].body.token))
            => req'[r].res.status = 403 /\ db' = db
       /\ \A op \in {"refresh", "logout"} :
            (Continues(r, op) /\ req'[r].res.status = 200)
            => Includes(req[r].user.refreshTokens, req[r].body.token)]_vars

\* a correctly signed token that no set holds was refused, and so was a token
\* that a set holds but that fails verification
C4_Witness ==
  /\ req[1].op = "refresh" /\ req[1].pc = "done" /\ req[1].res.status = 403
  /\ Holders(db, req[1].body.token) # {}
  /\ ~jwtVerifyRefresh(req[1].body.token)
  /\ \E t \in Presentable \ {NoToken} : jwtVerifyRefresh(t) /\ Holders(db, t) = {}

\* C5 as stated: a /logout of T repeated after a /logout of T succeeded and T is
\* in no set is a no-op answered with success.
C5_RepeatedLogoutSucceeds ==
  [][\A r1, r2 \in Slots :
       (/\ Succeeded(r1, "logout")
        /\ Holders(db, req[r1].body.token) = {}
        /\ Arrives(r2, "logout")
        /\ req'[r2].body.token = req[r1].body.token)
       => req'[r2].res.status = 200 /\ db' = db]_vars

\* C5 (amended): a /logout that finds T writes the owner's document without T
\* and answers 200; a /logout of T when no user's set holds T, as after an
\* earlier /logout of T, is answered 403 and writes nothing.
C5_LogoutRevokesOnce ==
  [][\A r \in Slots :
       /\ Continues(r, "logout") =>
            /\ req'[r].res.status = 200
            /\ db' = [db EXCEPT ![req[r].user._id] =
                        [req[r].user EXCEPT !.refreshTokens =
                           Without(@, req[r].body.token)]]
            /\ Holders(db', req[r].body.token) \subseteq
                 Holders(db, req[r].body.token) \ {req[r].user._id}
       /\ (/\ Arrives(r, "logout")
           /\ req'[r].body.token # NoToken
           /\ Holders(db, req'[r].body.token) = {})
          => req'[r].pc = "done" /\ req'[r].res.status = 403 /\ db' = db]_vars

\* a /logout of T was answered 200 and a repeated /logout of T was answered 403
C5_Witness ==
  /\ Succeeded(1, "logout")
  /\ req[2].op = "logout" /\ req[2].pc = "done" /\ req[2].res.status = 403
  /\ req[2].body.token = req[1].body.token
  /\ Holders(db, req[1].body.token) = {}

-----------------------------------------------------------------------------
(* What the cart claims speak of *)

ProductIdsOf(products) == {products[i].productId : i \in 1 .. Len(products)}
ItemsOf(products, productId) ==
  {i \in 1 .. Len(products) : products[i].productId = productId}
RECURSIVE QuantitySum(_, _)
QuantitySum(products, I) ==
  IF I = {} THEN 0
  ELSE LET i == CHOOSE j \in I : TRUE
       IN  products[i].quantity + QuantitySum(products, I \ {i})
\* the quantity a cart, or a batch, holds of a product in all
QuantityOf(products, productId) == QuantitySum(products, ItemsOf(products, productId))
UniqueProducts(products) ==
  \A i, j \in 1 .. Len(products) :
    products[i].productId = products[j].productId => i = j
\* the cart stored for the user of slot r's request, after the step
CartAfter(r) == db'[req[r].body.id].cart.products
CartRead(r) == req[r].user.cart.products
\* nothing but the cart of the request's user is written
OnlyCartWritten(r) ==
  db' = [db EXCEPT ![req[r].body.id] = [req[r].user EXCEPT !.cart.products = CartAfter(r)]]

\* C6: no stored cart ever holds two items of one product, and a successful
\* POST /cart leaves, for every product the cart held, one item whose quantity
\* is the old quantity plus the quantities the batch names for it, and for every
\* other product of the batch one item whose quantity is the batch's sum.
C6_OneItemPerProduct ==
  [][/\ \A u \in DOMAIN db' : UniqueProducts(db'[u].cart.products)
     /\ \A r \in Slots :
          (Continues(r, "cartAdd") /\ req'[r].res.status = 200) =>
            \A productId \in ProductIdsOf(CartRead(r)) \cup ProductIdsOf(req[r].body.products) :
              /\ Cardinality(ItemsOf(CartAfter(r), productId)) = 1
              /\ QuantityOf(CartAfter(r), productId) =
                   QuantityOf(CartRead(r), productId)
                     + QuantityOf(req[r].body.products, productId)]_vars

\* a batch naming one product twice left one item holding the sum
C6_Witness ==
  /\ Succeeded(1, "cartAdd")
  /\ Len(req[1].body.products) = 2
  /\ req[1].body.products[1].productId = req[1].body.products[2].productId
  /\ req[1].body.products[1].quantity = 2 /\ req[1].body.products[2].quantity = -1
  /\ db[1].cart.products = req[1].res.cart
  /\ Len(db[1].cart.products) = 1
  /\ db[1].cart.products[1].quantity = 1

\* C7: every item of every stored cart has a quantity of at least 1.
C7_QuantityAtLeastOne ==
  \A u \in DOMAIN db :
    \A i \in 1 .. Len(db[u].cart.products) : db[u].cart.products[i].quantity >= 1

\* C8: a POST /cart whose batch names a product the catalog does not hold is
\* answered 400 naming the first such product and writes nothing; otherwise it
\* is answered 200 and the stored cart holds, of every product, what it held
\* plus what the batch names, the new items carrying the catalog's record.
C8_AddAllOrNothing ==
  [][\A r \in Slots :
       Continues(r, "cartAdd") =>
         LET batch == req[r].body.products
             unresolved == {i \in 1 .. Len(batch) :
                              batch[i].productId \notin DOMAIN fakeProductDatabase}
         IN  IF unresolved # {}
             THEN /\ req'[r].res.status = 400
                  /\ req'[r].res.message = "Invalid productId"
                  /\ req'[r].res.productId = batch[SetMin(unresolved)].productId
                  /\ db' = db
             ELSE /\ req'[r].res.status = 200
                  /\ req'[r].res.cart = CartAfter(r)
                  /\ OnlyCartWritten(r)
                  /\ ProductIdsOf(CartAfter(r)) =
                       ProductIdsOf(CartRead(r)) \cup ProductIdsOf(batch)
                  /\ \A productId \in ProductIds :
                       QuantityOf(CartAfter(r), productId) =
                         QuantityOf(CartRead(r), productId) + QuantityOf(batch, productId)
                  /\ \A i \in 1 .. Len(CartAfter(r)) :
                       LET item == CartAfter(r)[i]
                       IN  \/ \E j \in 1 .. Len(CartRead(r)) :
                                [item EXCEPT !.quantity = 0] =
                                  [CartRead(r)[j] EXCEPT !.quantity = 0]
                           \/ /\ item.productId \notin ProductIdsOf(CartRead(r))
                              /\ item.price = fakeProductDatabase[item.productId].price
                              /\ item.name = fakeProductDatabase[item.productId].name]_vars

\* a batch whose first product resolved and whose second did not was refused,
\* and the cart holds nothing of the first
C8_Witness ==
  /\ req[1].op = "cartAdd" /\ req[1].pc = "done" /\ req[1].res.status = 400
  /\ Len(req[1].body.products) = 2
  /\ req[1].body.products[1].productId = "A"
  /\ req[1].res.productId = "X"
  /\ db[1].cart.products = <<>>

\* C9: a PUT /cart/:productId with a quantity below 1 is answered 400 and
\* writes nothing; for a product the cart does not hold it is answered 404 and
\* writes nothing; otherwise it is answered 200 and the stored cart is the cart
\* read with that one item's quantity replaced by the requested one, so that a
\* request repeated on its own result changes nothing.
C9_SetQuantity ==
  [][\A r \in Slots :
       /\ (Arrives(r, "cartPut") /\ req'[r].body.quantity < 1) =>
            /\ req'[r].pc = "done"
            /\ req'[r].res.status = 400
            /\ req'[r].res.message = "Invalid quantity"
            /\ db' = db
       /\ Continues(r, "cartPut") =>
            LET old == CartRead(r)
                productId == req[r].body.productId
                quantity == req[r].body.quantity
            IN  IF productId \notin ProductIdsOf(old)
                THEN /\ req'[r].res.status = 404
                     /\ req'[r].res.message = "Product not in cart"
                     /\ db' = db
                ELSE /\ quantity >= 1
                     /\ req'[r].res.status = 200
                     /\ OnlyCartWritten(r)
                     /\ Len(CartAfter(r)) = Len(old)
                     /\ \A i \in 1 .. Len(old) :
                          IF old[i].productId = productId
                          THEN CartAfter(r)[i] = [old[i] EXCEPT !.quantity = quantity]
                          ELSE CartAfter(r)[i] = old[i]
                     /\ (QuantityOf(old, productId) = quantity => CartAfter(r) = old)]_vars

\* the quantity of one of two items was set, from another value
C9_Witness ==
  /\ Succeeded(1, "cartPut")
  /\ Len(db[1].cart.products) = 2
  /\ db[1].cart.products[2].productId = req[1].body.productId
  /\ db[1].cart.products[2].quantity = req[1].body.quantity
  /\ req[1].body.quantity = 2
  /\ db[1].cart.products[1].quantity = 0

\* C10: a DELETE /cart that matches no item of the cart is answered 404 and
\* writes nothing; otherwise it is answered 200 with the number of items
\* removed, and the stored cart is the cart read without the items whose
\* product is among the requested ones, the others kept as they were and in
\* their order.
C10_Remove ==
  [][\A r \in Slots :
       Continues(r, "cartDelete") =>
         LET old == CartRead(r)
             productIds == req[r].body.productIds
             matched == {i \in 1 .. Len(old) : old[i].productId \in productIds}
             keptAt == {i \in 1 .. Len(old) : i \notin matched}
         IN  IF matched = {}
             THEN /\ req'[r].res.status = 404
                  /\ req'[r].res.message = "No matching products found in cart"
                  /\ db' = db
             ELSE /\ req'[r].res.status = 200
                  /\ req'[r].res.count = Cardinality(matched)
                  /\ OnlyCartWritten(r)
                  /\ Len(CartAfter(r)) = Cardinality(keptAt)
                  /\ \A i \in keptAt :
                       CartAfter(r)[Cardinality({j \in keptAt : j <= i})] = old[i]]_vars

\* one of two items was removed by a request that also named a product the
\* cart did not hold, and the other item is still there
C10_Witness ==
  /\ Succeeded(1, "cartDelete")
  /\ req[1].res.count = 1
  /\ req[1].body.productIds = {"A", "X"}
  /\ Len(db[1].cart.products) = 1
  /\ db[1].cart.products[1].productId = "B"

-----------------------------------------------------------------------------
(* What the order claims speak of *)

\* the sum over the items of an order of price times quantity
ItemsTotal(products) ==
  SumOver([i \in 1 .. Len(products) |-> products[i].price * products[i].quantity],
          1 .. Len(products))
OrdersAfter(r) == db'[req[r].body.id].orders
OrdersRead(r) == req[r].user.orders

\* C11: the totalAmount of every stored order is the sum over its items of
\* price times quantity, plus its stored shippingFee, minus the discount of its
\* stored coupon (0 when it has none), whether POST /order wrote it or
\* PUT /order/:orderId rewrote it.
C11_TotalByFormula ==
  \A id \in DOMAIN db :
    \A i \in 1 .. Len(db[id].orders) :
      LET order == db[id].orders[i]
      IN  order.totalAmount =
            (ItemsTotal(order.products) + order.shippingFee) - order.coupon.discount

\* the products of a request all resolve against the catalog
AllResolve(products) ==
  \A i \in 1 .. Len(products) : products[i].productId \in DOMAIN fakeProductDatabase

\* C12: a POST /order whose shippingId does not resolve is answered 400
\* "Invalid shippingId" without reading or writing anything, whatever else it
\* carries; a POST /order whose couponId does not resolve is answered as its
\* products decide, and when they all resolve it appends one order that has no
\* coupon and whose total is the items plus the fee, nothing taken off.
C12_CouponSoftShippingHard ==
  [][\A r \in Slots :
       /\ (Arrives(r, "orderCreate")
             /\ req'[r].body.shippingId \notin DOMAIN fakeShippingFeeDatabase) =>
            /\ req'[r].pc = "done"
            /\ req'[r].res.status = 400
            /\ req'[r].res.message = "Invalid shippingId"
            /\ db' = db
       /\ (Continues(r, "orderCreate")
             /\ req[r].body.couponId \notin DOMAIN fakeCouponDatabase) =>
            /\ req[r].body.shippingId \in DOMAIN fakeShippingFeeDatabase
            /\ IF AllResolve(req[r].body.products)
               THEN /\ req'[r].res.status = 200
                    /\ Len(OrdersAfter(r)) = Len(OrdersRead(r)) + 1
                    /\ LET order == OrdersAfter(r)[Len(OrdersAfter(r))]
                       IN  /\ order._id = req'[r].res.orderId
                           /\ order.coupon = NoCoupon
                           /\ order.shippingFee =
                                fakeShippingFeeDatabase[req[r].body.shippingId].ShippingFee
                           /\ order.totalAmount =
                                ItemsTotal(order.products) + order.shippingFee
               ELSE /\ req'[r].res.status = 400
                    /\ req'[r].res.message = "Invalid productId"
                    /\ db' = db]_vars

\* an order was created with a coupon that did not resolve, and the next
\* POST /order, with a shipping identifier that does not resolve, was refused
\* and appended nothing
C12_Witness ==
  /\ Len(db[1].orders) = 1
  /\ db[1].orders[1].coupon = NoCoupon
  /\ db[1].orders[1].shippingMethod = "store"
  /\ db[1].orders[1].totalAmount = 220
  /\ req[1].op = "orderCreate" /\ req[1].pc = "done"
  /\ req[1].body.shippingId = "000"
  /\ req[1].body.couponId = "123"
  /\ req[1].res.status = 400

\* C17: a PUT /order/:orderId naming an order the user does not have is
\* answered 404, one naming a product the catalog does not hold is answered
\* 400, and neither writes anything; a successful one writes the addressed
\* order only, with the items, shipping and coupon of the request, and leaves
\* its identifier and its review, the other orders and the rest of the user
\* as they were.
C17_UpdateAllOrNothing ==
  [][\A r \in Slots :
       Continues(r, "orderUpdate") =>
         LET old == OrdersRead(r)
             body == req[r].body
             at == {i \in 1 .. Len(old) : old[i]._id = body.orderId}
         IN  IF at = {}
             THEN /\ req'[r].res.status = 404
                  /\ req'[r].res.message = "Order not found"
                  /\ db' = db
             ELSE IF ~AllResolve(body.products)
             THEN /\ req'[r].res.status = 400
                  /\ req'[r].res.message = "Invalid productId"
                  /\ db' = db
             ELSE /\ req'[r].res.status = 200
                  /\ db' = [db EXCEPT ![body.id] =
                              [req[r].user EXCEPT !.orders = OrdersAfter(r)]]
                  /\ Len(OrdersAfter(r)) = Len(old)
                  /\ \A i \in 1 .. Len(old) :
                       IF i \in at
                       THEN /\ OrdersAfter(r)[i]._id = old[i]._id
                            /\ OrdersAfter(r)[i].review = old[i].review
                            /\ Len(OrdersAfter(r)[i].products) = Len(body.products)
                            /\ \A k \in 1 .. Len(body.products) :
                                 /\ OrdersAfter(r)[i].products[k].productId =
                                      body.products[k].productId
                                 /\ OrdersAfter(r)[i].products[k].quantity =
                                      body.products[k].quantity
                            /\ OrdersAfter(r)[i].shippingMethod = body.shippingMethod
                            /\ OrdersAfter(r)[i].coupon = body.coupon
                       ELSE OrdersAfter(r)[i] = old[i]]_vars

\* the reviewed order was rewritten and kept its review, beside a second order
\* that the request left as POST /order had made it
C17_Witness ==
  /\ Succeeded(1, "orderUpdate")
  /\ req[1].body.orderId = 1
  /\ Len(db[1].orders) = 2
  /\ db[1].orders[1].review = FirstReview
  /\ db[1].orders[1].shippingMethod = "home"
  /\ db[1].orders[1].products = <<>>
  /\ db[1].orders[2].shippingMethod = "store"

OrderOps == {"orderCreate", "orderUpdate", "orderDelete"}
CartOps == {"cartAdd", "cartDelete", "cartPut"}

\* C20: no step of an order request changes the stored cart of any user, and
\* no step of a cart request changes the stored orders of any user.
C20_CartAndOrdersApart ==
  [][\A r \in Slots :
       req'[r] # req[r] =>
         /\ req'[r].op \in OrderOps => \A id \in DOMAIN db : db'[id].cart = db[id].cart
         /\ req'[r].op \in CartOps => \A id \in DOMAIN db : db'[id].orders = db[id].orders]_vars

\* an order of product A was created while the cart held A, and the cart
\* still holds it
C20_Witness ==
  /\ Succeeded(1, "orderCreate")
  /\ Len(db[1].orders) = 1
  /\ db[1].orders[1].products[1].productId = "A"
  /\ Len(db[1].cart.products) = 1
  /\ db[1].cart.products[1].productId = "A"
  /\ db[1].cart.products[1].quantity = 2

-----------------------------------------------------------------------------
(* What the review claims speak of *)

\* the stored review of the order a request names, NoReview when the user has
\* no such order
ReviewOf(orders, orderId) ==
  IF \E i \in 1 .. Len(orders) : orders[i]._id = orderId
  THEN orders[CHOOSE i \in 1 .. Len(orders) : orders[i]._id = orderId].review
  ELSE NoReview
HasOrder(orders, orderId) == \E i \in 1 .. Len(orders) : orders[i]._id = orderId

\* C13: a POST /order/:orderId/review for an order that has a review is
\* answered 400 "Review already exists" and writes nothing; for an order of the
\* user that has none it is answered 200 and stores a review; a
\* DELETE /order/:orderId/review for an order that has a review is answered 200
\* and leaves the order without one; and a stored review changes in no other
\* step than such a DELETE.
C13_AttachOnce ==
  [][/\ \A r \in Slots :
       /\ (Continues(r, "reviewAttach") /\ HasOrder(OrdersRead(r), req[r].body.orderId)) =>
            IF ReviewOf(OrdersRead(r), req[r].body.orderId) # NoReview
            THEN /\ req'[r].res.status = 400
                 /\ req'[r].res.message = "Review already exists"
                 /\ db' = db
            ELSE /\ req'[r].res.status = 200
                 /\ ReviewOf(OrdersAfter(r), req[r].body.orderId) # NoReview
       /\ (Continues(r, "reviewDetach")
             /\ ReviewOf(OrdersRead(r), req[r].body.orderId) # NoReview) =>
            /\ req'[r].res.status = 200
            /\ HasOrder(OrdersAfter(r), req[r].body.orderId)
            /\ ReviewOf(OrdersAfter(r), req[r].body.orderId) = NoReview
     /\ \A id \in DOMAIN db : \A i \in 1 .. Len(db[id].orders) :
          LET order == db[id].orders[i]
          IN  (/\ order.review # NoReview
               /\ ReviewOf(db'[id].orders, order._id) # order.review) =>
                \E r \in Slots : /\ Continues(r, "reviewDetach")
                                 /\ req[r].body.id = id
                                 /\ req[r].body.orderId = order._id]_vars

\* an order holds a review with an empty comment and no image, and a second
\* review for it was refused
C13_Witness ==
  /\ req[1].op = "reviewAttach" /\ req[1].pc = "done"
  /\ req[1].res.message = "Review already exists"
  /\ req[1].body.orderId = 1
  /\ req[1].body.rating = "5"
  /\ db[1].orders[1].review = [comment |-> "", rating |-> 1, imageFiles |-> <<>>]

\* the rating texts that name an integer from 1 to 5
IntegerRating(rating) ==
  /\ rating # ""
  /\ ~isNaN(rating)
  /\ RatingTenths[rating] % 10 = 0
  /\ RatingTenths[rating] >= 10
  /\ RatingTenths[rating] <= 50

\* C14: a POST /order/:orderId/review whose rating is not an integer from 1 to
\* 5 is answered 400 "Rating must be a number from 1 to 5", and a review that a
\* successful one stores carries the rating that was submitted.
C14_RatingIntegerOneToFive ==
  [][\A r \in Slots :
       /\ (Arrives(r, "reviewAttach") /\ ~IntegerRating(req'[r].body.rating)) =>
            /\ req'[r].pc = "done"
            /\ req'[r].res.status = 400
            /\ req'[r].res.message = "Rating must be a number from 1 to 5"
       /\ (Continues(r, "reviewAttach") /\ req'[r].res.status = 200) =>
            ReviewOf(OrdersAfter(r), req[r].body.orderId).rating * 10 =
              RatingTenths[req[r].body.rating]]_vars

\* C15: a GET /order/:orderId/review/image/:index is answered with the stored
\* image at that position when the user has the order, the order has a review
\* and 0 <= index < the number of its images; otherwise it is answered 404; it
\* writes nothing.
C15_ImageOrNotFound ==
  [][\A r \in Slots :
       Continues(r, "image") =>
         LET review == ReviewOf(OrdersRead(r), req[r].body.orderId)
             index == req[r].body.index
         IN  /\ db' = db
             /\ IF /\ HasOrder(OrdersRead(r), req[r].body.orderId)
                   /\ review # NoReview
                   /\ 0 <= index
                   /\ index < Len(review.imageFiles)
                THEN /\ req'[r].res.status = 200
                     /\ req'[r].res.image = review.imageFiles[index + 1]
                ELSE /\ req'[r].res.status = 404
                     /\ req'[r].res.image = ""]_vars

\* the second of two stored images was fetched
C15_Witness ==
  /\ Succeeded(1, "image")
  /\ req[1].body.index = 1
  /\ req[1].res.image = "img2"
  /\ db[1].orders[1].review.imageFiles = <<"img1", "img2">>

-----------------------------------------------------------------------------
(* What the registration claim speaks of *)

\* C18: no two stored users have the same email, whatever the interleaving of
\* the registrations.
C18_EmailUnique ==
  \A u \in DOMAIN db : \A v \in DOMAIN db :
    u # v => db[u].email # db[v].email

-----------------------------------------------------------------------------
(* What the session claim speaks of *)

TokensRead(r) == Range(req[r].user.refreshTokens)
TokensAfter(r) == Range(db'[req[r].user._id].refreshTokens)

\* C19: a successful /login leaves every refresh token of the user's set in it
\* and adds one; a successful /refresh of T takes T out, adds one and leaves
\* the others; a successful /logout of T takes T out and leaves the others; the
\* tokens left still find their user.
C19_SessionsIndependent ==
  [][\A r \in Slots :
       /\ (Continues(r, "login") /\ req'[r].res.status = 200) =>
            /\ TokensRead(r) \subseteq TokensAfter(r)
            /\ Cardinality(TokensAfter(r)) = Cardinality(TokensRead(r)) + 1
       /\ (Continues(r, "refresh") /\ req'[r].res.status = 200) =>
            /\ TokensRead(r) \ {req[r].body.token} \subseteq TokensAfter(r)
            /\ req[r].body.token \notin TokensAfter(r)
            /\ Cardinality(TokensAfter(r)) = Cardinality(TokensRead(r))
       /\ (Continues(r, "logout") /\ req'[r].res.status = 200) =>
            TokensAfter(r) = TokensRead(r) \ {req[r].body.token}
       /\ \A op \in {"login", "refresh", "logout"} :
            (Continues(r, op) /\ req'[r].res.status = 200) =>
              \A t \in TokensAfter(r) : req[r].user._id \in Holders(db', t)]_vars

====
